---- MODULE Spec2Model ----
(***************************************************************************)
(* Model of the constraint-based course planner (src/cpsat.py) and of the  *)
(* catalog queries it uses (src/data/data_loader.py).                      *)
(*                                                                         *)
(* The CP-SAT model built by CoursePlanner is kept as data: a set of       *)
(* linear constraints over the boolean decision variables x[course, sem].  *)
(* The external solver is modelled by its contract: OPTIMAL returns an     *)
(* assignment satisfying every constraint and maximising the objective,    *)
(* FEASIBLE returns any assignment satisfying every constraint, and the    *)
(* other statuses return none.                                             *)
(***************************************************************************)
EXTENDS Integers, Sequences, FiniteSets, TLC

(***************************************************************************)
(* Program constants (src/cpsat.py:12-16)                                  *)
(***************************************************************************)
MIN_CREDITS == 16
MAX_CREDITS == 25
TOTAL_MIN_CREDITS_FOR_GRAD_FROM_SEM_ONE == 160
TOTAL_SEMS == 8
MAX_ALLOWED_COURSES_PER_SEM == 12

(***************************************************************************)
(* Bounds of the explored input space                                      *)
(***************************************************************************)
\* largest number of planning terms (current_semester >= 9 - MaxSpan)
MaxSpan == 2
\* largest size of the student's failed set
MaxFailed == 1

None == "None"

\* RANGES (src/cpsat.py:17-21)
RANGES ==
  [low    |-> <<MIN_CREDITS, MIN_CREDITS + 2>>,
   medium |-> <<MIN_CREDITS + 3, MAX_CREDITS - 3>>,
   high   |-> <<MAX_CREDITS - 2, MAX_CREDITS>>]

\* PLAN_CONFIGS (src/cpsat.py:22-46), the weights of each profile, in
\* dictionary order
PLAN_TYPES == <<"balanced", "interest_aligned">>

PLAN_CONFIGS ==
  [balanced |->
     [mandatory |-> 100, unlock |-> 30, interest |-> 30, workload |-> 60,
      failed |-> 200],
   interest_aligned |->
     [mandatory |-> 60, unlock |-> 30, interest |-> 150, workload |-> 30,
      failed |-> 200]]

(***************************************************************************)
(* Generic helpers                                                         *)
(***************************************************************************)
RECURSIVE SumSet(_)
\* sum of the first components of a set of tuples
SumSet(S) ==
  IF S = {} THEN 0
  ELSE LET t == CHOOSE u \in S : TRUE IN t[1] + SumSet(S \ {t})

\* the elements of a sequence, as a set
Range(seq) == {seq[i] : i \in 1..Len(seq)}

(***************************************************************************)
(* Catalog records.  A course record carries the fields that the loader    *)
(* reads from courses.json.                                                *)
(***************************************************************************)
Course(code, cr, ty, mand, pre, yr, sl) ==
  [course_code |-> code, credits |-> cr, course_type |-> ty,
   is_mandatory |-> mand, prerequisites |-> pre, unlocks |-> {},
   year_offered |-> yr, slots |-> sl,
   has_lab |-> FALSE, lab_course_code |-> None,
   is_lab |-> FALSE, theory_course_code |-> None]

WithLab(rec, lab) == [rec EXCEPT !.has_lab = TRUE, !.lab_course_code = lab]

WithTheory(rec, th) == [rec EXCEPT !.is_lab = TRUE, !.theory_course_code = th]

WithUnlocks(rec, un) == [rec EXCEPT !.unlocks = un]


(***************************************************************************)
(* State                                                                   *)
(***************************************************************************)
VARIABLES
  loader,               \* DataLoader: courses_data and credit_requirements
  student,              \* StudentProfile fields read by the planner
  ui_log_callback,      \* CoursePlanner._ui_log_callback, "unset" until set
  pc,                   \* position of generate_complete_plan
  plan_index,           \* index in PLAN_TYPES of the profile being planned
  remaining_semesters,  \* list(range(current_semester, 9))
  eligible_courses,     \* list of catalog codes not completed
  failed_courses,       \* set(student.failed_courses)
  llm_weights,          \* result of get_course_interest_weights_from_llm
  model,                \* the CpModel of the current profile
  status,               \* status returned by solver.Solve
  solution,             \* the (course, sem) pairs the solver set to 1
  plan,                 \* plan returned by generate_single_plan
  explanation,          \* explanation returned by generate_single_plan
  results,              \* results of generate_complete_plan
  plan_configs,         \* the module-level dict PLAN_CONFIGS
  course_interest_weights_dict,  \* weights used by set_objective
  probes,               \* the checks diagnose_infeasibility solved, in order
  reasons,              \* the list diagnose_infeasibility returned
  diagnose_calls,       \* calls of diagnose_infeasibility in this call
  calls,                \* per finished generate_single_plan call: the
                        \* solver status and the pair it returned
  last_llm_weights,     \* CoursePlanner.last_llm_weights
  last_plan_explanation, \* CoursePlanner.last_plan_explanation
  root_course_code,     \* argument of get_all_prerequisites_recursive
  all_prereqs,          \* its local set all_prereqs
  to_process            \* its local list to_process

vars == <<loader, student, ui_log_callback, pc, plan_index,
          remaining_semesters, eligible_courses, failed_courses, llm_weights,
          model, status, solution, plan, explanation, results, plan_configs,
          course_interest_weights_dict, probes, reasons, diagnose_calls,
          calls, last_llm_weights, last_plan_explanation,
          root_course_code,
          all_prereqs, to_process>>

(***************************************************************************)
(* DataLoader (src/data/data_loader.py)                                    *)
(***************************************************************************)
\* _build_course_indices: course code -> course record
course_code_dict ==
  [c \in {r.course_code : r \in Range(loader.courses_data)} |->
     CHOOSE r \in Range(loader.courses_data) : r.course_code = c]

get_all_course_codes ==
  [i \in 1..Len(loader.courses_data) |-> loader.courses_data[i].course_code]

\* _build_prerequisite_maps / get_prerequisites
get_prerequisites(course_code) ==
  IF course_code \in DOMAIN course_code_dict
    THEN course_code_dict[course_code].prerequisites
    ELSE {}

\* course_unlocks.get(c, [])
course_unlocks(course_code) ==
  IF course_code \in DOMAIN course_code_dict
    THEN course_code_dict[course_code].unlocks
    ELSE {}

\* _build_category_maps: the mandatory courses, in catalog order
mandatory_courses ==
  SelectSeq(get_all_course_codes,
            LAMBDA c : course_code_dict[c].is_mandatory)

\* _build_metadata_maps / get_credits
get_credits(course_code) ==
  IF course_code \in DOMAIN course_code_dict
    THEN course_code_dict[course_code].credits
    ELSE 0

\* _build_slot_maps / get_course_slots
get_course_slots(course_code) ==
  IF course_code \in DOMAIN course_code_dict
    THEN course_code_dict[course_code].slots
    ELSE {}

\* _build_lab_relationships: theory -> lab, recorded on the theory course
theory_to_lab ==
  [c \in {r.course_code : r \in {q \in Range(loader.courses_data) :
                                   q.has_lab /\ q.lab_course_code # None}} |->
     course_code_dict[c].lab_course_code]

\* _build_lab_relationships: lab -> theory, recorded on the lab course
lab_to_theory ==
  [c \in {r.course_code : r \in {q \in Range(loader.courses_data) :
                                   q.is_lab /\ q.theory_course_code # None}} |->
     course_code_dict[c].theory_course_code]

get_lab_course(theory_code) ==
  IF theory_code \in DOMAIN theory_to_lab THEN theory_to_lab[theory_code]
  ELSE None

get_theory_course(lab_code) ==
  IF lab_code \in DOMAIN lab_to_theory THEN lab_to_theory[lab_code]
  ELSE None

\* A slot code is the pair <<leading letter, number>>; the empty code is <<>>
do_slots_conflict(slot1, slot2) ==
  IF slot1 = <<>> \/ slot2 = <<>> THEN FALSE
  ELSE slot1[1] = slot2[1]

can_take_together(course1, course2) ==
  \E slot1 \in get_course_slots(course1) :
    \E slot2 \in get_course_slots(course2) :
      ~ do_slots_conflict(slot1, slot2)

get_remaining_mandatory_courses(st) ==
  SelectSeq(mandatory_courses, LAMBDA c : c \notin st.completed_courses)

(***************************************************************************)
(* The CpModel.  A constraint is  (sum of coef * x[course, sem]) + k       *)
(* op rhs, with terms a set of <<coef, course, sem>>.  model.add(1 == 0)   *)
(* is the constraint with no terms, k = 1, op "==", rhs = 0.               *)
(***************************************************************************)
Lin(terms, k, op, rhs) == [terms |-> terms, k |-> k, op |-> op, rhs |-> rhs]

\* _create_variables: the keys of x
_create_variables(courses, semesters) ==
  {<<c, s>> : c \in Range(courses), s \in Range(semesters)}

\* variant: the bound of the sum is 2
add_course_can_be_taken_twice_constraint(courses, semesters) ==
  {Lin({<<1, c, s>> : s \in Range(semesters)}, 0, "<=", 2) :
     c \in Range(courses)}

add_course_can_be_taken_only_once_constraint(courses, semesters) ==
  {Lin({<<1, c, s>> : s \in Range(semesters)}, 0, "<=", 1) :
     c \in Range(courses)}

add_course_already_completed_constraint(st, courses, semesters) ==
  {Lin({<<1, v[1], v[2]>>}, 0, "==", 0) :
     v \in {w \in _create_variables(courses, semesters) :
              w[1] \in st.completed_courses}}

\* variant: the prerequisite may be taken in the same term as the course
preq_check_same_term(st, courses, semesters, course, sem, preq) ==
  IF preq \in st.completed_courses THEN {}
  ELSE IF preq \notin Range(courses) THEN {Lin({}, 1, "==", 0)}
  ELSE LET past_sems == {s \in Range(semesters) : s <= sem}
       IN {Lin({<<1, course, sem>>}
                 \cup {<<-1, preq, s>> : s \in past_sems},
               0, "<=", 0)}

\* the constraints of one (course, sem, preq) iteration
preq_check(st, courses, semesters, course, sem, preq) ==
  IF preq \in st.completed_courses THEN {}
  ELSE IF preq \notin Range(courses) THEN {Lin({}, 1, "==", 0)}
  ELSE LET past_sems == {s \in Range(semesters) : s < sem}
       IN IF past_sems = {}
            THEN {Lin({<<1, course, sem>>}, 0, "==", 0)}
            ELSE {Lin({<<1, course, sem>>}
                        \cup {<<-1, preq, s>> : s \in past_sems},
                      0, "<=", 0)}

\* variant: a prerequisite that is neither completed nor eligible is skipped
add_preq_check_skips_unavailable(st, courses, semesters) ==
  UNION {UNION {UNION {preq_check(st, courses, semesters, course, sem, preq) :
                         preq \in get_prerequisites(course) \cap Range(courses)} :
                  sem \in Range(semesters)} :
           course \in Range(courses)}

add_preq_check_constraint(st, courses, semesters) ==
  UNION {UNION {UNION {preq_check(st, courses, semesters, course, sem, preq) :
                         preq \in get_prerequisites(course)} :
                  sem \in Range(semesters)} :
           course \in Range(courses)}

add_min_max_credit_constraint(courses, semesters) ==
  UNION {LET sem_creds == {<<get_credits(c), c, sem>> : c \in Range(courses)}
         IN {Lin(sem_creds, 0, ">=", MIN_CREDITS),
             Lin(sem_creds, 0, "<=", MAX_CREDITS)} :
           sem \in Range(semesters)}

\* the loop over semesters ends with a break after its first iteration
add_slot_conflict_constraint(courses, semesters) ==
  IF semesters = <<>> THEN {}
  ELSE LET sem == semesters[1]
       IN {Lin({<<1, courses[i], sem>>, <<1, courses[j], sem>>}, 0, "<=", 1) :
             <<i, j>> \in {<<a, b>> \in (1..Len(courses)) \X (1..Len(courses)) :
                             a < b /\ ~ can_take_together(courses[a], courses[b])}}

add_theory_lab_pairing_constraint(st, courses, semesters) ==
  UNION {LET lab == get_lab_course(course)
         IN IF lab # None /\ lab \in Range(courses)
               /\ lab \notin st.completed_courses
              THEN {Lin({<<1, course, sem>>, <<-1, lab, sem>>}, 0, "==", 0) :
                      sem \in Range(semesters)}
              ELSE {} :
           course \in Range(courses)}

\* variant: the completed credits are not separated by category
earned_in_any_category(st, category) ==
  SumSet({<<get_credits(c), c>> :
            c \in st.completed_courses \cap DOMAIN course_code_dict})

\* earned_by_category[category]: credits of the completed catalog courses
\* whose course_type is the category
earned_by_category(st, category) ==
  SumSet({<<get_credits(c), c>> :
            c \in {d \in st.completed_courses \cap DOMAIN course_code_dict :
                     course_code_dict[d].course_type = category}})

ElectiveTypes ==
  {"Discipline Elective", "Open Elective", "Multidisciplinary Elective"}

\* category_courses of add_category_credit_requirement_constraint
category_courses(courses, category) ==
  IF category = "Combined Elective"
    THEN {c \in Range(courses) : course_code_dict[c].course_type \in ElectiveTypes}
    ELSE {c \in Range(courses) : course_code_dict[c].course_type = category}

add_category_credit_requirement_constraint(st, courses, semesters) ==
  UNION {LET required == loader.credit_requirements[category]
             already_earned == earned_by_category(st, category)
             cc == category_courses(courses, category)
         IN IF already_earned >= required THEN {}
            ELSE IF cc = {} THEN {Lin({}, 1, "==", 0)}
            ELSE {Lin({<<get_credits(c), c, sem>> :
                         c \in cc, sem \in Range(semesters)},
                      already_earned, ">=", required)} :
           category \in DOMAIN loader.credit_requirements}

project_courses(courses) ==
  {c \in Range(courses) :
     course_code_dict[c].course_type = "Projects and Internship"}

\* variant: the other capstone-type courses are allowed from term 6
project_pin_from_term_6(course, sem) ==
  IF course = "BCSE497J"
    THEN {Lin({<<1, course, sem>>}, 0, "==", IF sem = 7 THEN 1 ELSE 0)}
  ELSE IF course = "BCSE498J" \/ course = "BCSE499J"
    THEN {Lin({<<1, course, sem>>}, 0, "==", IF sem = 8 THEN 1 ELSE 0)}
  ELSE IF sem < 6 THEN {Lin({<<1, course, sem>>}, 0, "==", 0)}
  ELSE {}

\* the constraint of one (course, sem) iteration of add_project_constraint
project_pin(course, sem) ==
  IF course = "BCSE497J"
    THEN {Lin({<<1, course, sem>>}, 0, "==", IF sem = 7 THEN 1 ELSE 0)}
  ELSE IF course = "BCSE498J" \/ course = "BCSE499J"
    THEN {Lin({<<1, course, sem>>}, 0, "==", IF sem = 8 THEN 1 ELSE 0)}
  ELSE IF sem < 7 THEN {Lin({<<1, course, sem>>}, 0, "==", 0)}
  ELSE {}

add_project_constraint(courses, semesters) ==
  UNION {project_pin(course, sem) :
           course \in project_courses(courses), sem \in Range(semesters)}

\* x[c, s] raises KeyError when c is not an eligible course
add_failed_courses_retake_constraint(failed, semesters) ==
  {Lin({<<1, c, s>> : s \in Range(semesters)}, 0, "==", 1) : c \in failed}

\* variant: the failed courses are counted as earned
credits_earned_with_failed(st) ==
  SumSet({<<get_credits(c), c>> :
            c \in st.completed_courses \cup st.failed_courses})

credits_earned_so_far(st) ==
  SumSet({<<get_credits(c), c>> : c \in st.completed_courses})

add_total_min_credits_req_for_graduation(st, courses, semesters) ==
  {Lin({<<get_credits(c), c, s>> :
          c \in Range(courses), s \in Range(semesters)},
       0, ">=",
       TOTAL_MIN_CREDITS_FOR_GRAD_FROM_SEM_ONE - credits_earned_so_far(st))}

add_year_level_course_unlock_constraint(courses, semesters) ==
  {Lin({<<1, v[1], v[2]>>}, 0, "==", 0) :
     v \in {w \in _create_variables(courses, semesters) :
              (w[2] + 1) \div 2 < course_code_dict[w[1]].year_offered}}

\* variant: the cap is one course too high
add_max_allowed_courses_off_by_one(courses, semesters) ==
  {Lin({<<1, c, sem>> : c \in Range(courses)}, 0, "<=",
       MAX_ALLOWED_COURSES_PER_SEM + 1) :
     sem \in Range(semesters)}

add_max_allowed_courses_per_semester(courses, semesters) ==
  {Lin({<<1, c, sem>> : c \in Range(courses)}, 0, "<=",
       MAX_ALLOWED_COURSES_PER_SEM) :
     sem \in Range(semesters)}

add_hard_constraints(st, courses, failed, semesters) ==
  add_course_already_completed_constraint(st, courses, semesters)
    \cup add_category_credit_requirement_constraint(st, courses, semesters)
    \cup add_course_can_be_taken_only_once_constraint(courses, semesters)
    \cup add_min_max_credit_constraint(courses, semesters)
    \cup add_preq_check_constraint(st, courses, semesters)
    \cup add_project_constraint(courses, semesters)
    \cup add_slot_conflict_constraint(courses, semesters)
    \cup add_theory_lab_pairing_constraint(st, courses, semesters)
    \cup add_failed_courses_retake_constraint(failed, semesters)
    \cup add_total_min_credits_req_for_graduation(st, courses, semesters)
    \cup add_year_level_course_unlock_constraint(courses, semesters)
    \cup add_max_allowed_courses_per_semester(courses, semesters)

(***************************************************************************)
(* The solver (ortools CpSolver.Solve), by its contract.  An assignment is *)
(* the set T of variables <<course, sem>> whose value is 1.                *)
(***************************************************************************)
Value(c, T) ==
  SumSet({t \in c.terms : <<t[2], t[3]>> \in T}) + c.k

Holds(c, T) ==
  CASE c.op = "<=" -> Value(c, T) <= c.rhs
    [] c.op = ">=" -> Value(c, T) >= c.rhs
    [] c.op = "==" -> Value(c, T) = c.rhs

\* variables fixed by a constraint  coef * x == rhs  on that variable alone
FixedTo(m, b) ==
  {<<t[2], t[3]>> :
     t \in UNION {c.terms : c \in {d \in m : /\ Cardinality(d.terms) = 1
                                              /\ d.op = "==" /\ d.k = 0
                                              /\ \A u \in d.terms :
                                                   u[1] # 0 /\ d.rhs = b * u[1]}}}

\* least and greatest value of a constraint once the variables in ones are
\* 1 and those outside ones and undecided are 0
CanHold(c, ones, undecided) ==
  LET base == SumSet({t \in c.terms : <<t[2], t[3]>> \in ones}) + c.k
      open == {t \in c.terms : <<t[2], t[3]>> \in undecided}
      lo == base + SumSet({t \in open : t[1] < 0})
      hi == base + SumSet({t \in open : t[1] > 0})
  IN CASE c.op = "<=" -> lo <= c.rhs
       [] c.op = ">=" -> hi >= c.rhs
       [] c.op = "==" -> lo <= c.rhs /\ c.rhs <= hi

\* the assignments that extend ones over undecided and satisfy every
\* constraint of m
RECURSIVE Extensions(_, _, _)
Extensions(m, ones, undecided) ==
  IF \E c \in m : ~ CanHold(c, ones, undecided) THEN {}
  ELSE IF undecided = {} THEN {ones}
  ELSE LET v == CHOOSE w \in undecided : \A u \in undecided : w[2] <= u[2]
       IN Extensions(m, ones \cup {v}, undecided \ {v})
            \cup Extensions(m, ones, undecided \ {v})

\* the assignments of the variables xs that satisfy every constraint of m;
\* only assignments that agree with the fixed variables are enumerated
Solutions(xs, m) ==
  LET ones == FixedTo(m, 1) \cap xs
      free == xs \ (FixedTo(m, 0) \cup ones)
  IN {T \in Extensions(m, ones, free) : \A c \in m : Holds(c, T)}

(***************************************************************************)
(* The objective (add_workload_balance_soft_constraint,                    *)
(* add_course_interest_soft_constraint, set_objective)                     *)
(***************************************************************************)
\* variant: every term is measured against the student's preference range
add_workload_balance_same_range(st, courses, semesters) ==
  LET workload_preference ==
        IF st.workload_preference = None THEN "medium"
        ELSE st.workload_preference
  IN {[sem |-> semesters[i],
       sem_credits |-> {<<get_credits(c), c, semesters[i]>> : c \in Range(courses)},
       min_target |-> RANGES[workload_preference][1],
       max_target |-> RANGES[workload_preference][2]] :
        i \in 1..Len(semesters)}

\* workload_penalties: for each term the target range its two penalty
\* variables are measured against; under_penalty has domain 0..MIN_CREDITS
\* and over_penalty has domain 0..MAX_CREDITS
add_workload_balance_soft_constraint(st, courses, semesters) ==
  LET workload_preference ==
        IF st.workload_preference = None THEN "medium"
        ELSE st.workload_preference
  IN {[sem |-> semesters[i],
       sem_credits |-> {<<get_credits(c), c, semesters[i]>> : c \in Range(courses)},
       min_target |-> IF i = 1 THEN RANGES[workload_preference][1]
                      ELSE RANGES["medium"][1],
       max_target |-> IF i = 1 THEN RANGES[workload_preference][2]
                      ELSE RANGES["medium"][2]] :
        i \in 1..Len(semesters)}

\* An interest weight is a number of quarters q (0..4) standing for the
\* float q/4; the default weight 0.5 is 2 quarters
DefaultWeight == 2

\* variant: the supplied weights are overwritten by the default
add_course_interest_default_only(courses, llm) ==
  [c \in Range(courses) \cup DOMAIN llm.courses |-> DefaultWeight]

\* llm.courses maps the rated course codes to their weights; it is empty
\* when the provider failed (llm_weights is None)
add_course_interest_soft_constraint(courses, llm) ==
  [c \in Range(courses) \cup DOMAIN llm.courses |->
     IF c \in DOMAIN llm.courses THEN llm.courses[c] ELSE DefaultWeight]

\* int(weight * 100) of a weight of q quarters
InterestInt(q) == (q * 100) \div 4

\* variant: the interest score is subtracted
objective_coef_interest_subtracted(st, courses, failed, weights_dict, weights, c, s) ==
  (TOTAL_SEMS - s + 1)
    * (  weights.mandatory
           * (IF c \in Range(get_remaining_mandatory_courses(st)) THEN 1 ELSE 0)
       + weights.unlock * Cardinality(course_unlocks(c))
       - weights.interest * InterestInt(weights_dict[c])
       + weights.failed * (IF c \in failed THEN 1 ELSE 0))

\* coefficient of x[c, s] in the maximised expression
objective_coef(st, courses, failed, weights_dict, weights, c, s) ==
  (TOTAL_SEMS - s + 1)
    * (  weights.mandatory
           * (IF c \in Range(get_remaining_mandatory_courses(st)) THEN 1 ELSE 0)
       + weights.unlock * Cardinality(course_unlocks(c))
       + weights.interest * InterestInt(weights_dict[c])
       + weights.failed * (IF c \in failed THEN 1 ELSE 0))

set_objective(st, courses, semesters, failed, penalties, weights_dict, weights) ==
  [coef |-> {<<objective_coef(st, courses, failed, weights_dict, weights,
                              v[1], v[2]), v[1], v[2]>> :
               v \in _create_variables(courses, semesters)},
   w_workload |-> weights.workload,
   penalties |-> penalties]

Max0(n) == IF n > 0 THEN n ELSE 0

\* the penalty variables of one term can take values in their domains
PenaltyFits(p, T) ==
  LET cr == SumSet({t \in p.sem_credits : <<t[2], t[3]>> \in T})
  IN /\ p.min_target - cr <= MIN_CREDITS
     /\ cr - p.max_target <= MAX_CREDITS

\* the least total of the penalty variables under assignment T
PenaltyTotal(penalties, T) ==
  SumSet({<<LET cr == SumSet({t \in p.sem_credits : <<t[2], t[3]>> \in T})
            IN Max0(p.min_target - cr) + Max0(cr - p.max_target), p.sem>> :
            p \in penalties})

ObjectiveValue(obj, T) ==
  SumSet({t \in obj.coef : <<t[2], t[3]>> \in T})
    - obj.w_workload * PenaltyTotal(obj.penalties, T)

\* variant: a workload weight above 30 turns the workload targets into hard
\* bounds
FeasibleWithinTargets(m) ==
  {T \in Solutions(m.x, m.constraints) :
     /\ \A p \in m.objective.penalties : PenaltyFits(p, T)
     /\ m.objective.w_workload > 30
          => PenaltyTotal(m.objective.penalties, T) = 0}

\* the assignments a solve of the model m can return as feasible
FeasibleSolutions(m) ==
  {T \in Solutions(m.x, m.constraints) :
     \A p \in m.objective.penalties : PenaltyFits(p, T)}

\* the assignments of greatest objective value among the feasible ones F
OptimalSolutions(F, obj) ==
  LET val == [T \in F |-> ObjectiveValue(obj, T)]
  IN {T \in F : \A U \in F : val[U] <= val[T]}

\* variant: the courses of the first remaining term are not collected
get_solution_after_first_term(T, courses, semesters) ==
  [sem \in Range(semesters) |->
     IF sem = semesters[1] THEN <<>>
     ELSE SelectSeq(courses, LAMBDA c : <<c, sem>> \in T)]

\* get_solution: for each term, the courses set to 1 in eligible order
get_solution(T, courses, semesters) ==
  [sem \in Range(semesters) |->
     SelectSeq(courses, LAMBDA c : <<c, sem>> \in T)]

\* variant: the first remaining term is left out of the mapping
EmptyPlanFromNextTerm(semesters) ==
  [sem \in Range(semesters) \ {semesters[1]} |-> <<>>]

\* {sem: [] for sem in remaining_semesters}
EmptyPlan(semesters) == [sem \in Range(semesters) |-> <<>>]

\* variant: the completed courses are not skipped
get_all_and_failed_courses(st) ==
  [eligible |-> get_all_course_codes, failed |-> st.failed_courses]

\* get_eligible_and_failed_courses
get_eligible_and_failed_courses(st) ==
  [eligible |-> SelectSeq(get_all_course_codes,
                          LAMBDA c : c \notin st.completed_courses),
   failed |-> st.failed_courses]

(***************************************************************************)
(* The diagnoser (diagnose_infeasibility)                                  *)
(***************************************************************************)
\* some assignment that extends ones over undecided satisfies every
\* constraint of m
RECURSIVE Solvable(_, _, _)
Solvable(m, ones, undecided) ==
  IF \E c \in m : ~ CanHold(c, ones, undecided) THEN FALSE
  ELSE IF undecided = {} THEN TRUE
  ELSE LET v == CHOOSE w \in undecided : \A u \in undecided : w[2] <= u[2]
       IN \/ Solvable(m, ones \cup {v}, undecided \ {v})
          \/ Solvable(m, ones, undecided \ {v})

\* the constraints one emitter adds to a probe model
emit(rule, st, courses, failed, semesters) ==
  CASE rule = "add_min_max_credit_constraint" ->
         add_min_max_credit_constraint(courses, semesters)
    [] rule = "add_course_can_be_taken_only_once_constraint" ->
         add_course_can_be_taken_only_once_constraint(courses, semesters)
    [] rule = "add_failed_courses_retake_constraint" ->
         add_failed_courses_retake_constraint(failed, semesters)
    [] rule = "add_preq_check_constraint" ->
         add_preq_check_constraint(st, courses, semesters)
    [] rule = "add_category_credit_requirement_constraint" ->
         add_category_credit_requirement_constraint(st, courses, semesters)
    [] rule = "add_total_min_credits_req_for_graduation" ->
         add_total_min_credits_req_for_graduation(st, courses, semesters)

\* the emitters each check calls
check1 == {"add_min_max_credit_constraint"}

check2 ==
  check1 \cup {"add_course_can_be_taken_only_once_constraint",
               "add_failed_courses_retake_constraint"}

check3 == check2 \cup {"add_preq_check_constraint"}

check4 == check3 \cup {"add_category_credit_requirement_constraint"}

check5 == check4 \cup {"add_total_min_credits_req_for_graduation"}

checks == << check1, check2, check3, check4, check5 >>

\* the reason appended when the check of the same index does not solve
check_reasons ==
  << "Not enough courses available to meet minimum credit requirements per semester",
     "Failed courses cannot be accommodated within credit limits",
     "Prerequisite chain constraints make scheduling impossible",
     "Category credit requirements cannot be satisfied with available courses in remaining semesters",
     "Total credits required for graduation cannot be achieved in remaining semesters" >>

final_reason ==
  "Combination of all constraints together is infeasible - likely slot conflicts or theory-lab pairing conflicts"

\* quick_solve can return True only for a model that has a solution; the
\* solver may also stop at its time limit without one
quick_solve(rules, st, courses, failed, semesters) ==
  {FALSE}
    \cup (IF Solvable(UNION {emit(r, st, courses, failed, semesters) :
                               r \in rules},
                      {}, _create_variables(courses, semesters))
            THEN {TRUE} ELSE {})

\* variant: every check is run and every failing check appends its reason
diagnose_every_check(st, courses, failed, semesters) ==
  LET can == [i \in 1..Len(checks) |->
                quick_solve(checks[i], st, courses, failed, semesters)]
  IN {[probes |-> [i \in 1..Len(checks) |->
                     [rules |-> checks[i], solved |-> r[i]]],
       reasons |-> LET failing == SelectSeq([i \in 1..Len(checks) |-> i],
                                            LAMBDA i : ~ r[i])
                   IN IF failing = <<>> THEN << final_reason >>
                      ELSE [j \in 1..Len(failing) |-> check_reasons[failing[j]]]] :
        r \in {q \in [1..Len(checks) -> BOOLEAN] :
                 \A i \in 1..Len(checks) : q[i] \in can[i]}}

\* diagnose_infeasibility: the checks that were solved, in order, with
\* their results, and the list of reasons returned
diagnose_infeasibility(st, courses, failed, semesters) ==
  LET can == [i \in 1..Len(checks) |->
                quick_solve(checks[i], st, courses, failed, semesters)]
      runs == {n \in 1..Len(checks) : \A i \in 1..(n - 1) : TRUE \in can[i]}
  IN {[probes |-> [i \in 1..n |->
                     [rules |-> checks[i], solved |-> i < n]],
       reasons |-> << check_reasons[n] >>] : n \in runs}
       \cup (IF \A i \in 1..Len(checks) : TRUE \in can[i]
               THEN {[probes |-> [i \in 1..Len(checks) |->
                                    [rules |-> checks[i], solved |-> TRUE]],
                      reasons |-> << final_reason >>]}
               ELSE {})

(***************************************************************************)
(* Catalogs and students explored                                          *)
(***************************************************************************)
Slot(letter, n) == <<letter, n>>

DC == "Discipline Core"
FC == "Foundation Core"
DE == "Discipline Elective"
OE == "Open Elective"
PI == "Projects and Internship"
CE == "Combined Elective"

\* prerequisite ordering, slot conflicts, retakes
CatalogOrdering ==
  [courses_data |->
     << Course("BASE", 130, FC, TRUE, {}, 1, {Slot("Z", 1)}),
        WithUnlocks(Course("PRE", 8, DC, TRUE, {}, 1, {Slot("B", 1)}),
                    {"ADV", "CNA", "CNB"}),
        Course("ADV", 8, DC, TRUE, {"PRE"}, 2, {Slot("C", 1)}),
        Course("MAN", 8, DC, TRUE, {}, 1, {Slot("D", 1)}),
        Course("CNA", 8, DE, FALSE, {"PRE"}, 2, {Slot("A", 1)}),
        Course("CNB", 8, OE, FALSE, {"PRE"}, 2, {Slot("A", 2)}) >>,
   credit_requirements |-> (FC :> 130 @@ DC :> 16 @@ CE :> 8)]

\* theory/lab pairs: THY-LAB is recorded on the theory course, TH2-LB2 only
\* on the lab course
CatalogLabs ==
  [courses_data |->
     << Course("BASE", 130, FC, TRUE, {}, 1, {Slot("Z", 1)}),
        WithLab(Course("THY", 6, DC, TRUE, {}, 1, {Slot("B", 1)}), "LAB"),
        WithTheory(Course("LAB", 2, DC, TRUE, {}, 1, {Slot("L", 1)}), "THY"),
        Course("TH2", 6, DC, FALSE, {}, 1, {Slot("C", 1)}),
        WithTheory(Course("LB2", 2, DC, FALSE, {}, 1, {Slot("M", 1)}), "TH2"),
        Course("FIL", 8, OE, FALSE, {}, 1, {Slot("D", 1)}),
        Course("FI2", 10, OE, FALSE, {}, 1, {Slot("E", 1)}) >>,
   credit_requirements |-> (DC :> 8 @@ CE :> 16)]

\* capstone courses
CatalogProjects ==
  [courses_data |->
     << Course("BASE", 130, FC, TRUE, {}, 1, {Slot("Z", 1)}),
        Course("BCSE497J", 8, PI, TRUE, {}, 4, {Slot("P", 1)}),
        Course("BCSE498J", 8, PI, TRUE, {}, 4, {Slot("Q", 1)}),
        Course("BCSE499J", 8, PI, TRUE, {}, 4, {Slot("R", 1)}),
        Course("BPRJ", 8, PI, FALSE, {}, 1, {Slot("S", 1)}),
        Course("FIL", 8, OE, FALSE, {}, 1, {Slot("D", 1)}),
        Course("FI2", 8, OE, FALSE, {}, 1, {Slot("E", 1)}) >>,
   credit_requirements |-> (PI :> 24)]

\* a mandatory course that fits in no term
CatalogTight ==
  [courses_data |->
     << Course("BASE", 144, FC, TRUE, {}, 1, {Slot("Z", 1)}),
        Course("X16", 16, OE, FALSE, {}, 1, {Slot("A", 1)}),
        Course("M10", 10, DC, TRUE, {}, 1, {Slot("B", 1)}) >>,
   credit_requirements |-> (FC :> 100)]

\* category quotas that exclude otherwise feasible plans
CatalogQuota ==
  [courses_data |->
     << Course("BASE", 144, FC, TRUE, {}, 1, {Slot("Z", 1)}),
        Course("QDC", 8, DC, FALSE, {}, 1, {Slot("A", 1)}),
        Course("QDE", 8, DE, FALSE, {}, 1, {Slot("B", 1)}),
        Course("QOE", 8, OE, FALSE, {}, 1, {Slot("C", 1)}),
        Course("QCE", 8, CE, FALSE, {}, 1, {Slot("D", 1)}) >>,
   credit_requirements |-> (FC :> 100 @@ DC :> 8 @@ CE :> 8)]

\* thirteen small courses that fit the credit bounds of one term together;
\* U01..U11 are chained as theory/lab pairs, U12 is free
SmallCodes ==
  << "U01", "U02", "U03", "U04", "U05", "U06", "U07", "U08", "U09", "U10",
     "U11", "U12" >>

SlotLetters ==
  << "A", "B", "C", "D", "E", "F", "G", "H", "I", "J", "K", "L" >>

SmallCourse(i) ==
  LET rec == Course(SmallCodes[i], 1, OE, FALSE, {}, 1, {Slot(SlotLetters[i], 1)})
  IN IF i + 1 < Len(SmallCodes) THEN WithLab(rec, SmallCodes[i + 1]) ELSE rec

CatalogSmall ==
  [courses_data |->
     << Course("BASE", 144, FC, TRUE, {}, 1, {Slot("Z", 1)}),
        Course("W5", 5, DC, TRUE, {}, 1, {Slot("W", 1)}) >>
       \o [i \in 1..Len(SmallCodes) |-> SmallCourse(i)],
   credit_requirements |-> (FC :> 100)]

\* a quota of a category of which the catalog has no course
CatalogMissing ==
  [courses_data |->
     << Course("BASE", 144, FC, TRUE, {}, 1, {Slot("Z", 1)}),
        Course("E1", 16, OE, FALSE, {}, 1, {Slot("A", 1)}),
        Course("E2", 16, OE, FALSE, {}, 1, {Slot("B", 1)}) >>,
   credit_requirements |-> (FC :> 100 @@ PI :> 8)]

\* a chain of courses of the fourth year, which no term before the seventh
\* admits
CatalogUnlock ==
  [courses_data |->
     << Course("BASE", 144, FC, TRUE, {}, 1, {Slot("Z", 1)}),
        WithUnlocks(Course("Y4A", 16, OE, FALSE, {}, 4, {Slot("B", 1)}),
                    {"Y4B"}),
        WithUnlocks(Course("Y4B", 16, OE, FALSE, {"Y4A"}, 4, {Slot("C", 1)}),
                    {"Y4C"}),
        Course("Y4C", 16, OE, FALSE, {"Y4B"}, 4, {Slot("D", 1)}) >>,
   credit_requirements |-> (FC :> 100)]

\* two courses of which a term admits only one: HI is mandatory and is the
\* first eligible course, LO is neither
CatalogChoice ==
  [courses_data |->
     << Course("BASE", 144, FC, TRUE, {}, 1, {Slot("Z", 1)}),
        Course("HI", 16, DC, TRUE, {}, 1, {Slot("A", 1)}),
        Course("LO", 16, OE, FALSE, {}, 1, {Slot("B", 1)}) >>,
   credit_requirements |-> (FC :> 100)]

\* a course whose prerequisite GONE is not a course of the catalog
CatalogDangling ==
  [courses_data |->
     << Course("BASE", 144, FC, TRUE, {}, 1, {Slot("Z", 1)}),
        Course("D16", 16, OE, FALSE, {}, 1, {Slot("A", 1)}),
        Course("N10", 10, OE, FALSE, {"GONE"}, 1, {Slot("B", 1)}) >>,
   credit_requirements |-> (FC :> 100)]

\* P and Q are each other's prerequisite and S is its own
CatalogCycle ==
  [courses_data |->
     << Course("BASE", 144, FC, TRUE, {}, 1, {Slot("Z", 1)}),
        Course("F16", 16, DC, TRUE, {}, 1, {Slot("A", 1)}),
        Course("G16", 16, OE, FALSE, {}, 1, {Slot("B", 1)}),
        Course("P", 4, OE, FALSE, {"Q"}, 1, {Slot("C", 1)}),
        Course("Q", 4, OE, FALSE, {"P"}, 1, {Slot("D", 1)}),
        Course("S", 4, OE, FALSE, {"S"}, 1, {Slot("E", 1)}) >>,
   credit_requirements |-> (FC :> 100)]

\* the capstone course BCSE498J is its own prerequisite
CatalogCycleCapstone ==
  [courses_data |->
     << Course("BASE", 144, FC, TRUE, {}, 1, {Slot("Z", 1)}),
        Course("F16", 16, DC, TRUE, {}, 1, {Slot("A", 1)}),
        Course("BCSE498J", 4, PI, TRUE, {"BCSE498J"}, 4, {Slot("B", 1)}) >>,
   credit_requirements |-> (FC :> 100)]

\* span: the number of planning terms up to which the catalog is explored
Catalogs ==
  { [loader |-> CatalogOrdering, span |-> MaxSpan,
     completed |-> {{"BASE"}, {"BASE", "PRE"}},
     failable |-> {"PRE", "CNA", "GHOST"}],
    [loader |-> CatalogLabs, span |-> MaxSpan,
     completed |-> {{"BASE"}},
     failable |-> {"THY"}],
    [loader |-> CatalogProjects, span |-> MaxSpan + 1,
     completed |-> {{"BASE"}, {"BASE", "BCSE497J"}},
     failable |-> {"BCSE498J"}],
    [loader |-> CatalogTight, span |-> MaxSpan,
     completed |-> {{"BASE"}},
     failable |-> {"M10"}],
    [loader |-> CatalogQuota, span |-> MaxSpan,
     completed |-> {{"BASE"}, {"BASE", "QDC"}, {"BASE", "QCE"},
                     {"BASE", "QDE"}},
     failable |-> {"QDE"}],
    [loader |-> CatalogSmall, span |-> 1,
     completed |-> {{"BASE"}},
     failable |-> {"U01"}],
    [loader |-> CatalogMissing, span |-> MaxSpan,
     completed |-> {{"BASE"}},
     failable |-> {}],
    [loader |-> CatalogChoice, span |-> MaxSpan,
     completed |-> {{"BASE"}},
     failable |-> {"LO"}],
    [loader |-> CatalogUnlock, span |-> MaxSpan + 1,
     completed |-> {{"BASE"}},
     failable |-> {}],
    [loader |-> CatalogDangling, span |-> MaxSpan,
     completed |-> {{"BASE"}, {"BASE", "D16"}},
     failable |-> {}],
    [loader |-> CatalogCycle, span |-> MaxSpan,
     completed |-> {{"BASE"}},
     failable |-> {"P"}],
    [loader |-> CatalogCycleCapstone, span |-> 1,
     completed |-> {{"BASE"}},
     failable |-> {}] }

WorkloadTags == {"medium", "heavy"}

\* outcomes of the interest provider for the eligible courses: failure, or
\* a rating of the first eligible course only
LLMNone == [is_none |-> TRUE, courses |-> <<>>]

LLMOutcomes(courses) ==
  {LLMNone}
    \cup (IF courses = <<>> THEN {}
          ELSE {[is_none |-> FALSE, courses |-> (courses[1] :> 4)]})

Students(k) ==
  {[current_semester |-> sem, completed_courses |-> comp,
    failed_courses |-> failed, workload_preference |-> w] :
     sem \in (TOTAL_SEMS + 1 - k.span)..TOTAL_SEMS,
     comp \in k.completed,
     failed \in {f \in SUBSET k.failable : Cardinality(f) <= MaxFailed},
     w \in WorkloadTags}

\* the explanation object made for the plan of each profile
Explanations ==
  << "explanation of the balanced plan",
     "explanation of the interest_aligned plan" >>

\* generate_plan_explanation: the explanation of the plan of the profile
\* of index i, or None when the provider fails
generate_plan_explanation(i) == {Explanations[i], None}

NoModel ==
  [x |-> {}, constraints |-> {},
   objective |-> [coef |-> {}, w_workload |-> 0, penalties |-> {}]]

(***************************************************************************)
(* Initial state: a loaded catalog and student, a constructed planner      *)
(***************************************************************************)
\* the planner's fields and locals before generate_complete_plan is called
Constructed ==
  /\ ui_log_callback = "unset"
  /\ pc = "idle"
  /\ plan_index = 1
  /\ remaining_semesters = <<>>
  /\ eligible_courses = <<>>
  /\ failed_courses = {}
  /\ llm_weights = LLMNone
  /\ model = NoModel
  /\ status = None
  /\ solution = {}
  /\ plan = <<>>
  /\ explanation = None
  /\ results = <<>>
  /\ course_interest_weights_dict = <<>>
  /\ probes = <<>>
  /\ reasons = <<>>
  /\ diagnose_calls = 0
  /\ calls = <<>>
  /\ last_llm_weights = LLMNone
  /\ last_plan_explanation = None
  /\ root_course_code = None
  /\ all_prereqs = {}
  /\ to_process = <<>>

Init ==
  /\ \E k \in Catalogs :
       /\ loader = k.loader
       /\ student \in {st \in Students(k) :
                         st.failed_courses \cap st.completed_courses = {}}
  /\ plan_configs = PLAN_CONFIGS
  /\ Constructed

\* generate_single_plan takes the weights of the profile as an argument:
\* the calls made for two weight records that differ at most in 'interest'
InterestWeights == {0, 30, 150}

ProfilePairs ==
  {[balanced |-> [PLAN_CONFIGS.balanced EXCEPT !.interest = p[1]],
    interest_aligned |-> [PLAN_CONFIGS.balanced EXCEPT !.interest = p[2]]] :
     p \in {q \in InterestWeights \X InterestWeights : q[1] <= q[2]}}

ProfileCatalogs ==
  {k \in Catalogs : k.loader \in {CatalogChoice, CatalogTight}}

InitProfiles ==
  /\ \E k \in ProfileCatalogs :
       /\ loader = k.loader
       /\ student \in {st \in Students(k) :
                         st.failed_courses \cap st.completed_courses = {}}
  /\ plan_configs \in ProfilePairs
  /\ Constructed

(***************************************************************************)
(* Operations of CoursePlanner                                             *)
(***************************************************************************)
\* set_ui_logger (src/cpsat.py:91-93)
SetUiLogger ==
  /\ pc = "idle"
  /\ ui_log_callback = "unset"
  /\ ui_log_callback' = "set"
  /\ UNCHANGED <<root_course_code, all_prereqs, to_process,
                 loader, student, pc, plan_index, remaining_semesters,
                 eligible_courses, failed_courses, llm_weights, model,
                 status, solution, plan, explanation, results, plan_configs,
                 course_interest_weights_dict, probes, reasons,
                 diagnose_calls, calls,
                 last_llm_weights, last_plan_explanation>>

\* generate_complete_plan up to the loop over PLAN_CONFIGS
\* (src/cpsat.py:352-389); _ui_log reads an attribute that only
\* set_ui_logger creates
GenerateCompletePlan ==
  /\ pc = "idle"
  /\ LET ef == get_eligible_and_failed_courses(student)
     IN /\ remaining_semesters' =
             [i \in 1..(TOTAL_SEMS + 1 - student.current_semester) |->
                student.current_semester + i - 1]
        /\ eligible_courses' = ef.eligible
        /\ failed_courses' = ef.failed
        /\ IF ui_log_callback = "unset"
             THEN /\ pc' = "raised"
                  /\ UNCHANGED llm_weights
             ELSE /\ pc' = "single"
                  /\ llm_weights' \in LLMOutcomes(ef.eligible)
  /\ plan_index' = 1
  /\ results' = <<>>
  /\ calls' = <<>>
  /\ UNCHANGED <<root_course_code, all_prereqs, to_process,
                 loader, student, ui_log_callback, model, status, solution,
                 plan, explanation, plan_configs,
                 course_interest_weights_dict, probes, reasons,
                 diagnose_calls,
                 last_llm_weights, last_plan_explanation>>

\* x[c, s] of a failed course that is not eligible, and
\* RANGES[workload_preference] of an unknown tag, raise KeyError
BuildRaises ==
  \/ ~ (failed_courses \subseteq Range(eligible_courses))
  \/ /\ student.workload_preference # None
     /\ student.workload_preference \notin DOMAIN RANGES

\* generate_single_plan up to set_objective (src/cpsat.py:101-127)
BuildModel ==
  /\ pc = "single"
  /\ IF BuildRaises
       THEN /\ pc' = "raised"
            /\ UNCHANGED <<model, course_interest_weights_dict,
                           last_llm_weights>>
       ELSE /\ pc' = "solve"
            /\ last_llm_weights' = llm_weights
            /\ course_interest_weights_dict' =
                 add_course_interest_soft_constraint(eligible_courses,
                                                     llm_weights)
            /\ model' =
                 [x |-> _create_variables(eligible_courses, remaining_semesters),
                  constraints |->
                    add_hard_constraints(student, eligible_courses,
                                         failed_courses, remaining_semesters),
                  objective |->
                    set_objective(student, eligible_courses,
                      remaining_semesters, failed_courses,
                      add_workload_balance_soft_constraint(student,
                        eligible_courses, remaining_semesters),
                      course_interest_weights_dict',
                      plan_configs[PLAN_TYPES[plan_index]])]
  /\ UNCHANGED <<root_course_code, all_prereqs, to_process,
                 loader, student, ui_log_callback, plan_index,
                 remaining_semesters, eligible_courses, failed_courses,
                 llm_weights, status, solution, plan, explanation, results,
                 plan_configs, probes, reasons, diagnose_calls, calls,
                 last_plan_explanation>>

\* solver.Solve(model) (src/cpsat.py:216-234)
Solve ==
  /\ pc = "solve"
  /\ LET F == FeasibleSolutions(model)
     IN \/ /\ status' = "OPTIMAL"
           /\ solution' \in OptimalSolutions(F, model.objective)
        \/ /\ status' = "FEASIBLE"
           /\ solution' \in F
        \/ /\ F = {}
           /\ status' = "INFEASIBLE"
           /\ solution' = {}
        \/ /\ status' = "UNKNOWN"
           /\ solution' = {}
  /\ pc' = "solved"
  /\ UNCHANGED <<root_course_code, all_prereqs, to_process,
                 loader, student, ui_log_callback, plan_index,
                 remaining_semesters, eligible_courses, failed_courses,
                 llm_weights, model, plan, explanation, results,
                 plan_configs, course_interest_weights_dict, probes, reasons,
                 diagnose_calls, calls,
                 last_llm_weights, last_plan_explanation>>

\* the OPTIMAL and FEASIBLE branches (src/cpsat.py:243-275);
\* generate_plan_explanation returns None when the provider fails
ReturnPlan ==
  /\ pc = "solved"
  /\ status \in {"OPTIMAL", "FEASIBLE"}
  /\ plan' = get_solution(solution, eligible_courses, remaining_semesters)
  /\ explanation' \in generate_plan_explanation(plan_index)
  /\ last_plan_explanation' = explanation'
  /\ pc' = "returned"
  /\ UNCHANGED <<root_course_code, all_prereqs, to_process,
                 loader, student, ui_log_callback, plan_index,
                 remaining_semesters, eligible_courses, failed_courses,
                 llm_weights, model, status, solution, results, plan_configs,
                 course_interest_weights_dict, probes, reasons,
                 diagnose_calls, calls, last_llm_weights>>

\* the branch of every other status, up to the return of
\* diagnose_infeasibility (src/cpsat.py:276-280)
Diagnose ==
  /\ pc = "solved"
  /\ status \notin {"OPTIMAL", "FEASIBLE"}
  /\ \E d \in diagnose_infeasibility(student, eligible_courses,
                                     failed_courses, remaining_semesters) :
       /\ probes' = d.probes
       /\ reasons' = d.reasons
  /\ diagnose_calls' = diagnose_calls + 1
  /\ pc' = "diagnosed"
  /\ UNCHANGED <<root_course_code, all_prereqs, to_process,
                 loader, student, ui_log_callback, plan_index,
                 remaining_semesters, eligible_courses, failed_courses,
                 llm_weights, model, status, solution, plan, explanation,
                 results, plan_configs, course_interest_weights_dict, calls,
                 last_llm_weights, last_plan_explanation>>

\* the reasons are printed and the empty plan is returned
\* (src/cpsat.py:281-284)
ReturnEmpty ==
  /\ pc = "diagnosed"
  /\ plan' = EmptyPlan(remaining_semesters)
  /\ explanation' = None
  /\ pc' = "returned"
  /\ UNCHANGED <<root_course_code, all_prereqs, to_process,
                 loader, student, ui_log_callback, plan_index,
                 remaining_semesters, eligible_courses, failed_courses,
                 llm_weights, model, status, solution, results, plan_configs,
                 course_interest_weights_dict, probes, reasons,
                 diagnose_calls, calls,
                 last_llm_weights, last_plan_explanation>>

\* the body of the loop of generate_complete_plan after the call
\* (src/cpsat.py:402-419)
Collect ==
  /\ pc = "returned"
  /\ results' =
       IF /\ DOMAIN plan # {}
          /\ \E sem \in DOMAIN plan : plan[sem] # <<>>
          /\ explanation # None
         THEN (PLAN_TYPES[plan_index] :>
                 [config |-> plan_configs[PLAN_TYPES[plan_index]],
                  plan |-> plan, explanation |-> explanation]) @@ results
         ELSE results
  /\ calls' = Append(calls, [status |-> status, plan |-> plan,
                             explanation |-> explanation])
  /\ IF plan_index < Len(PLAN_TYPES)
       THEN /\ plan_index' = plan_index + 1
            /\ pc' = "single"
       ELSE /\ plan_index' = plan_index
            /\ pc' = "done"
  \* the locals of the finished call are dead
  /\ model' = NoModel
  /\ status' = None
  /\ solution' = {}
  /\ plan' = <<>>
  /\ explanation' = None
  /\ course_interest_weights_dict' = <<>>
  /\ probes' = <<>>
  /\ reasons' = <<>>
  /\ diagnose_calls' = 0
  /\ UNCHANGED <<root_course_code, all_prereqs, to_process,
                 loader, student, ui_log_callback, remaining_semesters,
                 eligible_courses, failed_courses, llm_weights, plan_configs,
                 last_llm_weights, last_plan_explanation>>

Next ==
  \/ SetUiLogger
  \/ GenerateCompletePlan
  \/ BuildModel
  \/ Solve
  \/ ReturnPlan
  \/ Diagnose
  \/ ReturnEmpty
  \/ Collect

Spec == Init /\ [][Next]_vars

SpecProfiles == InitProfiles /\ [][Next]_vars

(***************************************************************************)
(* Properties of the returned plans                                        *)
(***************************************************************************)
\* generate_single_plan has just returned a plan read from the solver
PlanReturned == pc = "returned" /\ status \in {"OPTIMAL", "FEASIBLE"}

CandidateTerms == student.current_semester..TOTAL_SEMS

\* the terms of the plan that list course c
TermsOf(c) == {sem \in DOMAIN plan : c \in Range(plan[sem])}

PlanCourses == UNION {Range(plan[sem]) : sem \in DOMAIN plan}

CatalogCodes == Range(get_all_course_codes)

\* credits of the courses listed in one term of the plan
TermCredits(sem) ==
  SumSet({<<get_credits(plan[sem][i]), i>> : i \in 1..Len(plan[sem])})

\* C1: in a plan returned with status OPTIMAL or FEASIBLE every course code
\* appears in at most one term (and once in it), and every failed course
\* appears in exactly one term of current_semester..8
C1_UniqueAndRetaken ==
  PlanReturned =>
    /\ \A c \in PlanCourses : Cardinality(TermsOf(c)) <= 1
    /\ \A sem \in DOMAIN plan :
         \A i, j \in 1..Len(plan[sem]) :
           plan[sem][i] = plan[sem][j] => i = j
    /\ \A c \in student.failed_courses :
         \E sem \in CandidateTerms : TermsOf(c) = {sem}

\* a plan over two terms that retakes a failed course in the later term
C1_Witness ==
  /\ PlanReturned
  /\ Len(remaining_semesters) >= 2
  /\ \E c \in student.failed_courses :
       TermsOf(c) = {remaining_semesters[Len(remaining_semesters)]}

\* C2: every prerequisite of an assigned course is completed or assigned to
\* a strictly earlier term of the same plan
C2_PrerequisitesEarlier ==
  PlanReturned =>
    \A sem \in DOMAIN plan :
      \A c \in Range(plan[sem]) :
        \A p \in get_prerequisites(c) :
          \/ p \in student.completed_courses
          \/ \E s \in DOMAIN plan : s < sem /\ p \in Range(plan[s])

\* a plan that assigns a course whose prerequisite is not completed
C2_Witness ==
  /\ PlanReturned
  /\ \E c \in PlanCourses :
       \E p \in get_prerequisites(c) : p \notin student.completed_courses

\* C3: every term of current_semester..8 carries between MIN_CREDITS and
\* MAX_CREDITS credits and at most MAX_ALLOWED_COURSES_PER_SEM courses
C3_CreditAndCountBounds ==
  PlanReturned =>
    \A sem \in CandidateTerms :
      /\ sem \in DOMAIN plan
      /\ TermCredits(sem) >= MIN_CREDITS
      /\ TermCredits(sem) <= MAX_CREDITS
      /\ Len(plan[sem]) <= MAX_ALLOWED_COURSES_PER_SEM

\* a plan with a term that holds exactly the largest allowed number of
\* courses, out of more courses that would fit the credit bounds
C3_Witness ==
  /\ PlanReturned
  /\ \E sem \in DOMAIN plan :
       /\ Len(plan[sem]) = MAX_ALLOWED_COURSES_PER_SEM
       /\ Len(eligible_courses) > MAX_ALLOWED_COURSES_PER_SEM
       /\ SumSet({<<get_credits(c), c>> : c \in Range(eligible_courses)})
            <= MAX_CREDITS

\* the theory/lab pairs of the catalog, recorded on either course
CatalogPairs ==
  {<<th, theory_to_lab[th]>> : th \in DOMAIN theory_to_lab}
    \cup {<<lab_to_theory[lab], lab>> : lab \in DOMAIN lab_to_theory}

\* C4: for every theory/lab pair of the catalog with neither course
\* completed, each term lists both courses or neither
C4_PairsTogether ==
  PlanReturned =>
    \A pair \in CatalogPairs :
      (pair[1] \notin student.completed_courses
         /\ pair[2] \notin student.completed_courses)
        => \A sem \in DOMAIN plan :
             pair[1] \in Range(plan[sem]) <=> pair[2] \in Range(plan[sem])

\* C5: in every term of the plan any two distinct courses can be taken
\* together
C5_NoSlotConflict ==
  PlanReturned =>
    \A sem \in DOMAIN plan :
      \A c1, c2 \in Range(plan[sem]) :
        c1 # c2 => can_take_together(c1, c2)

\* a course counts toward a category when its course_type is the category,
\* or is one of the elective types for the category "Combined Elective"
OfCategory(c, category) ==
  /\ c \in CatalogCodes
  /\ \/ course_code_dict[c].course_type = category
     \/ /\ category = CE
        /\ course_code_dict[c].course_type \in ElectiveTypes

\* credits over all terms of the plan of the listed courses satisfying P
AssignedCredits(P(_)) ==
  SumSet({<<get_credits(plan[v[1]][v[2]]), v>> :
            v \in {w \in UNION {{<<sem, i>> : i \in 1..Len(plan[sem])} :
                                  sem \in DOMAIN plan} :
                     P(plan[w[1]][w[2]])}})

CompletedCredits(P(_)) ==
  SumSet({<<get_credits(c), c>> : c \in {d \in student.completed_courses : P(d)}})

\* C6: for every category of credit_requirements the credits of the
\* completed courses of the category plus the credits of the courses of the
\* category assigned in the plan reach the required credits
C6_CategoryQuota ==
  PlanReturned =>
    \A category \in DOMAIN loader.credit_requirements :
      CompletedCredits(LAMBDA c : OfCategory(c, category))
        + AssignedCredits(LAMBDA c : OfCategory(c, category))
        >= loader.credit_requirements[category]

\* a plan for a student who still owes credits in the category "Combined
\* Elective" and for whom a plan of other courses would fit the credit bounds
C6_Witness ==
  /\ PlanReturned
  /\ CE \in DOMAIN loader.credit_requirements
  /\ CompletedCredits(LAMBDA c : OfCategory(c, CE)) < loader.credit_requirements[CE]
  /\ SumSet({<<get_credits(c), c>> :
               c \in {d \in Range(eligible_courses) : ~ OfCategory(d, CE)}})
       >= MIN_CREDITS * Len(remaining_semesters)

\* C7: the credits assigned over all terms plus the credits of the
\* completed courses reach TOTAL_MIN_CREDITS_FOR_GRAD_FROM_SEM_ONE
C7_GraduationFloor ==
  PlanReturned =>
    AssignedCredits(LAMBDA c : TRUE) + CompletedCredits(LAMBDA c : TRUE)
      >= TOTAL_MIN_CREDITS_FOR_GRAD_FROM_SEM_ONE

\* a plan for a student whom the per-term minimum alone would leave below
\* the graduation threshold
C7_Witness ==
  /\ PlanReturned
  /\ CompletedCredits(LAMBDA c : TRUE) + MIN_CREDITS * Len(remaining_semesters)
       < TOTAL_MIN_CREDITS_FOR_GRAD_FROM_SEM_ONE

\* C8: among the courses of type "Projects and Internship" not completed,
\* BCSE497J is assigned to term 7 only when term 7 is planned, BCSE498J and
\* BCSE499J to term 8 only, and any other to no term before 7
C8_CapstonePinning ==
  PlanReturned =>
    \A c \in {d \in CatalogCodes \ student.completed_courses :
                course_code_dict[d].course_type = PI} :
      /\ (c = "BCSE497J" /\ 7 \in CandidateTerms) => TermsOf(c) = {7}
      /\ c \in {"BCSE498J", "BCSE499J"} => TermsOf(c) = {8}
      /\ c \notin {"BCSE497J", "BCSE498J", "BCSE499J"}
           => \A sem \in TermsOf(c) : sem >= 7

\* a plan that starts before term 7 and assigns the three capstone courses
\* and another course of the type
C8_Witness ==
  /\ PlanReturned
  /\ student.current_semester < 7
  /\ {"BCSE497J", "BCSE498J", "BCSE499J"} \subseteq PlanCourses
  /\ \E c \in PlanCourses \ {"BCSE497J", "BCSE498J", "BCSE499J"} :
       course_code_dict[c].course_type = PI

\* C9: every mandatory course of the catalog that is not completed is
\* assigned to exactly one term of current_semester..8
C9_MandatoryPlaced ==
  PlanReturned =>
    \A c \in Range(get_remaining_mandatory_courses(student)) :
      \E sem \in CandidateTerms : TermsOf(c) = {sem}

\* C10: a returned plan, read from the solver or empty, has exactly the
\* terms current_semester..8 as keys and lists only catalog courses that are
\* not completed; the decision variables are exactly the pairs of such a
\* course and such a term
C10_PlanKeysAndVariables ==
  /\ pc = "returned" =>
       /\ DOMAIN plan = CandidateTerms
       /\ PlanCourses \subseteq CatalogCodes \ student.completed_courses
  /\ pc \in {"solve", "solved", "returned"} =>
       model.x = (CatalogCodes \ student.completed_courses) \X CandidateTerms

\* a non-empty plan for a student who completed a course beside BASE
C10_Witness ==
  /\ PlanReturned
  /\ PlanCourses # {}
  /\ student.completed_courses \ {"BASE"} # {}

(***************************************************************************)
(* Properties of the failure paths, the diagnoser and the driver           *)
(***************************************************************************)
\* C11: generate_single_plan returns the plan read from the solver's
\* assignment, without calling the diagnoser, exactly when the status is
\* OPTIMAL or FEASIBLE; for every other status it has called
\* diagnose_infeasibility once and returns the mapping of every term in
\* current_semester..8 to the empty list, with None as explanation.
C11_PlanOrDiagnosis ==
  pc = "returned" =>
    IF status \in {"OPTIMAL", "FEASIBLE"}
      THEN /\ diagnose_calls = 0
           /\ DOMAIN plan = student.current_semester..TOTAL_SEMS
           /\ \A sem \in DOMAIN plan : \A c \in Range(eligible_courses) :
                (c \in Range(plan[sem])) <=> (<<c, sem>> \in solution)
      ELSE /\ diagnose_calls = 1
           /\ Len(reasons) >= 1
           /\ DOMAIN plan = student.current_semester..TOTAL_SEMS
           /\ \A sem \in DOMAIN plan : plan[sem] = <<>>
           /\ explanation = None

\* an infeasible model was diagnosed and the empty plan returned
C11_Witness ==
  /\ pc = "returned"
  /\ status = "INFEASIBLE"
  /\ diagnose_calls = 1
  /\ Len(remaining_semesters) = 2
  /\ DOMAIN plan = Range(remaining_semesters)

\* C12: plan generation never crashes: for every catalog and every student
\* whose completed and failed sets are disjoint, generate_complete_plan
\* never raises, also when no UI logger was registered, when the workload
\* tag is not one of low/medium/high, and when a failed course code is
\* absent from the catalog.
C12_NeverRaises == pc # "raised"

\* the categories whose quota the completed credits do not meet and of
\* which no eligible course remains
MissingCategories ==
  {category \in DOMAIN loader.credit_requirements :
     /\ earned_by_category(student, category)
          < loader.credit_requirements[category]
     /\ category_courses(eligible_courses, category) = {}}

\* C13: when a category's quota is not met by completed credits and no
\* eligible course of that category remains, the profile's solve is
\* aborted: Solve is never called for a model in which the constraint
\* compiler detected this condition.
C13_NoSolveAfterIntegrityError ==
  (model # NoModel /\ MissingCategories # {}) => status = None

\* generate_single_plan has built its model (and may have gone further)
ModelBuilt == pc \in {"solve", "solved", "diagnosed", "returned"}

\* C14: a failure of the interest provider (llm_weights is None) or a
\* result that omits eligible courses never aborts scheduling: the weights
\* dictionary has an entry for every eligible course, 0.5 (two quarters)
\* where no weight was supplied and the supplied weight otherwise, and
\* when generate_complete_plan ends the solver has been called for every
\* profile.
C14_DefaultInterestWeights ==
  /\ ModelBuilt =>
       \A c \in Range(eligible_courses) :
         /\ c \in DOMAIN course_interest_weights_dict
         /\ IF c \in DOMAIN llm_weights.courses
              THEN course_interest_weights_dict[c] = llm_weights.courses[c]
              ELSE 2 * course_interest_weights_dict[c] = 4
  /\ pc = "done" =>
       /\ Len(calls) = Len(PLAN_TYPES)
       /\ \A i \in 1..Len(calls) :
            calls[i].status \in {"OPTIMAL", "FEASIBLE", "INFEASIBLE", "UNKNOWN"}

\* the provider failed and the second profile was still solved to optimality
C14_Witness ==
  /\ pc = "returned"
  /\ llm_weights.is_none
  /\ plan_index = 2
  /\ status = "OPTIMAL"
  /\ Len(eligible_courses) > 1
  /\ \A c \in Range(eligible_courses) :
       course_interest_weights_dict[c] = DefaultWeight

\* C15: when a profile's solve succeeds (OPTIMAL or FEASIBLE) but
\* generate_plan_explanation returns None, the plan of that profile is
\* still present in the mapping generate_complete_plan returns.
C15_PlanKeptWithoutExplanation ==
  pc = "done" =>
    \A i \in 1..Len(calls) :
      (calls[i].status \in {"OPTIMAL", "FEASIBLE"}
         /\ calls[i].explanation = None)
        => /\ PLAN_TYPES[i] \in DOMAIN results
           /\ results[PLAN_TYPES[i]].plan = calls[i].plan

\* diagnose_infeasibility has returned in the current call
Diagnosed == pc \in {"diagnosed", "returned"} /\ diagnose_calls = 1

\* the rule each probe after the first is said to add
ProbeAdds ==
  << "add_min_max_credit_constraint",
     "add_failed_courses_retake_constraint",
     "add_preq_check_constraint",
     "add_category_credit_requirement_constraint",
     "add_total_min_credits_req_for_graduation" >>

HardWithoutSlotAndPairing ==
  add_course_already_completed_constraint(student, eligible_courses,
                                          remaining_semesters)
    \cup add_category_credit_requirement_constraint(student, eligible_courses,
                                                    remaining_semesters)
    \cup add_course_can_be_taken_only_once_constraint(eligible_courses,
                                                      remaining_semesters)
    \cup add_min_max_credit_constraint(eligible_courses, remaining_semesters)
    \cup add_preq_check_constraint(student, eligible_courses,
                                   remaining_semesters)
    \cup add_project_constraint(eligible_courses, remaining_semesters)
    \cup add_failed_courses_retake_constraint(failed_courses,
                                              remaining_semesters)
    \cup add_total_min_credits_req_for_graduation(student, eligible_courses,
                                                  remaining_semesters)
    \cup add_year_level_course_unlock_constraint(eligible_courses,
                                                 remaining_semesters)
    \cup add_max_allowed_courses_per_semester(eligible_courses,
                                              remaining_semesters)

\* C17: when the full hard-constraint model has no solution and the
\* diagnoser, all five probes having solved, returns its closing reason
\* (slot conflicts or theory-lab pairing), the full model without the
\* slot-conflict and theory-lab pairing constraints is solvable.
C17_BlamedRulesAreTheCause ==
  (Diagnosed /\ status = "INFEASIBLE" /\ reasons = << final_reason >>)
    => Solvable(HardWithoutSlotAndPairing, {}, model.x)

\* C18: when no weighting profile succeeds, the mapping returned by
\* generate_complete_plan has an entry for every configured profile name,
\* whose plan maps each term in current_semester..8 to the empty list.
C18_EmptyPlansOnTotalFailure ==
  (pc = "done"
     /\ \A i \in 1..Len(calls) : calls[i].status \notin {"OPTIMAL", "FEASIBLE"})
    => \A i \in 1..Len(PLAN_TYPES) :
         /\ PLAN_TYPES[i] \in DOMAIN results
         /\ DOMAIN results[PLAN_TYPES[i]].plan
              = student.current_semester..TOTAL_SEMS
         /\ \A sem \in student.current_semester..TOTAL_SEMS :
              results[PLAN_TYPES[i]].plan[sem] = <<>>

InterestScore(p) ==
  LET d == add_course_interest_soft_constraint(eligible_courses, llm_weights)
      placed == {v \in Range(eligible_courses) \X DOMAIN p :
                   v[1] \in Range(p[v[2]])}
  IN SumSet({<<InterestInt(d[v[1]]) * (9 - v[2]), v[1], v[2]>> : v \in placed})

\* the second profile differs from the first only by a larger interest weight
InterestRaised ==
  /\ plan_configs[PLAN_TYPES[2]].interest > plan_configs[PLAN_TYPES[1]].interest
  /\ plan_configs[PLAN_TYPES[2]]
       = [plan_configs[PLAN_TYPES[1]] EXCEPT
            !.interest = plan_configs[PLAN_TYPES[2]].interest]

C21_NoStaleExplanation ==
  (pc = "returned" /\ status \notin {"OPTIMAL", "FEASIBLE"})
    => \A i \in 1..Len(PLAN_TYPES) :
         i # plan_index => last_plan_explanation # Explanations[i]

(***************************************************************************)
(* C22: every profile is solved over the same hard constraints             *)
(***************************************************************************)
\* C22: the model handed to the solver for a profile has one variable per eligible course
\* and remaining term and the hard constraints computed from the catalog and
\* the student alone, and when generate_complete_plan ends with no solve cut
\* short by the time limit (every status OPTIMAL or INFEASIBLE), either every
\* profile's solve produced a plan or none did.
C22_AllProfilesOrNone ==
  /\ pc = "solve" =>
       /\ model.x = _create_variables(eligible_courses, remaining_semesters)
       /\ model.constraints =
            add_hard_constraints(student, eligible_courses, failed_courses,
                                 remaining_semesters)
  /\ (pc = "done"
      /\ \A i \in DOMAIN calls : calls[i].status \in {"OPTIMAL", "INFEASIBLE"})
       => \/ \A i \in DOMAIN calls : calls[i].status = "OPTIMAL"
          \/ \A i \in DOMAIN calls : calls[i].status = "INFEASIBLE"

\* both profiles were solved to optimality and chose different plans
C22_Witness ==
  /\ pc = "done"
  /\ Len(calls) = Len(PLAN_TYPES)
  /\ calls[1].status = "OPTIMAL"
  /\ calls[2].status = "OPTIMAL"
  /\ calls[1].plan # calls[2].plan

(***************************************************************************)
(* C23: a prerequisite that is neither completed nor eligible              *)
(***************************************************************************)
\* an eligible course lists a prerequisite that is neither completed nor in
\* the eligible course pool
Unavailable ==
  LET pool == Range(get_eligible_and_failed_courses(student).eligible)
  IN \E c \in pool : \E p \in get_prerequisites(c) :
       p \notin student.completed_courses /\ p \notin pool

\* C23: when an eligible course lists a prerequisite that is neither
\* completed nor eligible, the model holds the constraint 1 == 0, no profile
\* returns a plan, and the diagnoser returns the prerequisite reason.
C23_BlamesPrerequisites ==
  Unavailable =>
    /\ pc = "solve" => Lin({}, 1, "==", 0) \in model.constraints
    /\ pc = "returned" => status \notin {"OPTIMAL", "FEASIBLE"}
    /\ Diagnosed => reasons = << check_reasons[3] >>

\* C23 (amended): when an eligible course lists a prerequisite that is
\* neither completed nor eligible, the model holds the constraint 1 == 0, no
\* profile returns a plan, and the diagnoser stops no later than its third
\* probe: it returns the reason of the first probe that fails, which is the
\* prerequisite reason when the two probes before it solve.
C23_StopsByThirdProbe ==
  Unavailable =>
    /\ pc = "solve" => Lin({}, 1, "==", 0) \in model.constraints
    /\ pc = "returned" => status \notin {"OPTIMAL", "FEASIBLE"}
    /\ Diagnosed =>
         /\ Len(probes) <= 3
         /\ ~probes[Len(probes)].solved
         /\ reasons = << check_reasons[Len(probes)] >>

\* the unavailable prerequisite belongs to a course that need not be
\* scheduled, the first two probes solved and the prerequisite probe failed
C23_Witness ==
  /\ Unavailable
  /\ pc = "returned"
  /\ Len(remaining_semesters) = 1
  /\ "D16" \in Range(eligible_courses)
  /\ status = "INFEASIBLE"
  /\ Len(probes) = 3
  /\ reasons = << check_reasons[3] >>

(***************************************************************************)
(* C24: credits earned and credits to come are counted over the same types *)
(***************************************************************************)
\* the course types whose future credits count toward a category
FutureTypes(category) ==
  IF category = "Combined Elective" THEN ElectiveTypes ELSE {category}

\* credits of the completed catalog courses of the types whose future
\* credits count toward the category
EarnedOfFutureTypes(category) ==
  SumSet({<<get_credits(c), c>> :
            c \in {d \in student.completed_courses \cap DOMAIN course_code_dict :
                     course_code_dict[d].course_type \in FutureTypes(category)}})

\* C24: a category (Combined Elective included) whose quota is already met
\* by the completed credits of the course types counted toward it in the
\* plan puts no quota constraint in the model handed to the solver.
C24_MetQuotaImposesNothing ==
  pc = "solve" =>
    \A category \in DOMAIN loader.credit_requirements :
      EarnedOfFutureTypes(category) >= loader.credit_requirements[category]
        => ~ \E con \in model.constraints :
               /\ con.op = ">="
               /\ con.rhs = loader.credit_requirements[category]
               /\ con.terms # {}
               /\ {t[2] : t \in con.terms}
                    = category_courses(eligible_courses, category)

(***************************************************************************)
(* C25: the retake reason needs a failed course                            *)
(***************************************************************************)
\* C25: for a student with no failed courses the second probe of the
\* diagnoser solves whenever the first does: the probe that stops the
\* diagnoser is never the second one, and the reason returned is never the
\* one about failed courses.
C25_NoRetakeReasonWithoutFailedCourses ==
  (Diagnosed /\ student.failed_courses = {})
    => /\ ~(Len(probes) = 2 /\ ~probes[2].solved)
       /\ reasons[1] # check_reasons[2]

(***************************************************************************)
(* GlobalCPSATPlanner (src/hanuman.py): one model over all remaining       *)
(* terms, solved once                                                      *)
(***************************************************************************)
\* MAX_CREDITS of src/hanuman.py (MIN_CREDITS is 16 there as well)
GLOBAL_MAX_CREDITS == 24

_add_course_taken_once_constraint(courses, semesters) ==
  {Lin({<<1, c, s>> : s \in Range(semesters)}, 0, "<=", 1) :
     c \in Range(courses)}

_add_already_completed_constraint(st, courses, semesters) ==
  {Lin({<<1, v[1], v[2]>>}, 0, "==", 0) :
     v \in {w \in _create_variables(courses, semesters) :
              w[1] \in st.completed_courses}}

\* a constraint is added only when there is an earlier planning term and
\* the prerequisite is in the eligible pool
_add_prerequisite_constraints(st, courses, semesters) ==
  UNION {UNION {UNION {LET earlier_sems == {s \in Range(semesters) : s < sem}
                       IN IF prereq \in st.completed_courses THEN {}
                          ELSE IF earlier_sems # {} /\ prereq \in Range(courses)
                            THEN {Lin({<<1, course, sem>>}
                                        \cup {<<-1, prereq, s>> :
                                                s \in earlier_sems},
                                      0, "<=", 0)}
                          ELSE {} :
                         prereq \in get_prerequisites(course)} :
                  sem \in Range(semesters)} :
           course \in Range(courses)}

_add_per_semester_credit_constraints(courses, semesters) ==
  UNION {LET semester_credits ==
               {<<get_credits(c), c, sem>> : c \in Range(courses)}
         IN {Lin(semester_credits, 0, ">=", MIN_CREDITS),
             Lin(semester_credits, 0, "<=", GLOBAL_MAX_CREDITS)} :
           sem \in Range(semesters)}

_add_slot_conflict_constraints(courses, semesters) ==
  UNION {{Lin({<<1, courses[i], sem>>, <<1, courses[j], sem>>}, 0, "<=", 1) :
            <<i, j>> \in {<<a, b>> \in (1..Len(courses)) \X (1..Len(courses)) :
                            a < b /\ ~ can_take_together(courses[a], courses[b])}} :
           sem \in Range(semesters)}

_add_theory_lab_pairing_constraints(courses, semesters) ==
  UNION {LET lab == get_lab_course(course)
         IN IF lab # None /\ lab \in Range(courses)
              THEN {Lin({<<1, course, sem>>, <<-1, lab, sem>>}, 0, "==", 0) :
                      sem \in Range(semesters)}
              ELSE {} :
           course \in Range(courses)}

_add_avoid_courses_constraint(st, courses, semesters) ==
  {Lin({<<1, v[1], v[2]>>}, 0, "==", 0) :
     v \in {w \in _create_variables(courses, semesters) :
              w[1] \in st.avoid_courses}}

\* a category without eligible courses is skipped
_add_category_credit_requirements(st, courses, semesters) ==
  UNION {LET required == loader.credit_requirements[category]
             already_earned == earned_by_category(st, category)
             cc == {c \in Range(courses) :
                      course_code_dict[c].course_type = category}
         IN IF already_earned >= required \/ cc = {} THEN {}
            ELSE {Lin({<<get_credits(c), c, sem>> :
                         c \in cc, sem \in Range(semesters)},
                      already_earned, ">=", required)} :
           category \in DOMAIN loader.credit_requirements}

_add_project_semester_8_constraint(courses, semesters) ==
  {Lin({<<1, v[1], v[2]>>}, 0, "==", 0) :
     v \in {w \in _create_variables(courses, semesters) :
              w[1] \in project_courses(courses) /\ w[2] < 7}}

\* 100 * mandatory_score + 30 * unlock_score, as one coefficient per variable
_set_objective(st, courses, semesters) ==
  [coef |-> {<<(IF v[1] \in Range(get_remaining_mandatory_courses(st))
                  THEN 100 ELSE 0)
               + 30 * Cardinality(course_unlocks(v[1])), v[1], v[2]>> :
               v \in _create_variables(courses, semesters)},
   w_workload |-> 0,
   penalties |-> {}]

_extract_solution(T, courses, semesters) ==
  [sem \in Range(semesters) |->
     SelectSeq(courses, LAMBDA c : <<c, sem>> \in T)]

\* the courses not completed whose year_offered is at most the year after
\* the student's current year
_get_all_eligible_courses(st) ==
  LET max_year == IF st.current_year + 1 < 4 THEN st.current_year + 1 ELSE 4
  IN SelectSeq(get_all_course_codes,
               LAMBDA c : /\ c \notin st.completed_courses
                          /\ course_code_dict[c].year_offered <= max_year)

\* five 16-credit courses of the first three years; K5 has the fourth-year
\* course LATE as its prerequisite
CatalogYears ==
  [courses_data |->
     << Course("K1", 16, DC, TRUE, {}, 1, {Slot("A", 1)}),
        Course("K2", 16, DC, TRUE, {}, 2, {Slot("B", 1)}),
        Course("K3", 16, DC, FALSE, {}, 2, {Slot("C", 1)}),
        Course("K4", 16, DC, FALSE, {}, 3, {Slot("D", 1)}),
        Course("K5", 16, DC, FALSE, {"LATE"}, 3, {Slot("E", 1)}),
        Course("LATE", 16, DC, FALSE, {}, 4, {Slot("F", 1)}) >>,
   credit_requirements |-> (DC :> 32)]

\* sems: the terms in which the student of the catalog can be
GlobalCatalogs ==
  { [loader |-> CatalogOrdering,
     sems |-> (TOTAL_SEMS + 1 - MaxSpan)..TOTAL_SEMS,
     completed |-> {{"BASE"}, {"BASE", "PRE"}},
     avoid |-> {{}, {"CNB"}}],
    [loader |-> CatalogLabs,
     sems |-> (TOTAL_SEMS + 1 - MaxSpan)..TOTAL_SEMS,
     completed |-> {{"BASE"}},
     avoid |-> {{}}],
    [loader |-> CatalogProjects,
     sems |-> (TOTAL_SEMS - MaxSpan)..TOTAL_SEMS,
     completed |-> {{"BASE"}},
     avoid |-> {{}}],
    [loader |-> CatalogYears,
     sems |-> {4},
     completed |-> {{}},
     avoid |-> {{}}] }

\* current_year is the year of the current term
GlobalStudents(k) ==
  {[current_semester |-> sem, current_year |-> (sem + 1) \div 2,
    completed_courses |-> comp, avoid_courses |-> av] :
     sem \in k.sems, comp \in k.completed, av \in k.avoid}

InitGlobal ==
  /\ \E k \in GlobalCatalogs :
       /\ loader = k.loader
       /\ student \in GlobalStudents(k)
  /\ plan_configs = PLAN_CONFIGS
  /\ Constructed

\* generate_complete_plan up to the call of the solver
\* (src/hanuman.py:22-58)
GlobalBuildModel ==
  /\ pc = "idle"
  /\ LET semesters == [i \in 1..(TOTAL_SEMS + 1 - student.current_semester) |->
                         student.current_semester + i - 1]
         courses == _get_all_eligible_courses(student)
     IN /\ remaining_semesters' = semesters
        /\ eligible_courses' = courses
        /\ model' =
             [x |-> _create_variables(courses, semesters),
              constraints |->
                _add_course_taken_once_constraint(courses, semesters)
                  \cup _add_already_completed_constraint(student, courses,
                                                         semesters)
                  \cup _add_prerequisite_constraints(student, courses,
                                                     semesters)
                  \cup _add_per_semester_credit_constraints(courses, semesters)
                  \cup _add_slot_conflict_constraints(courses, semesters)
                  \cup _add_theory_lab_pairing_constraints(courses, semesters)
                  \cup _add_avoid_courses_constraint(student, courses,
                                                     semesters)
                  \cup _add_category_credit_requirements(student, courses,
                                                         semesters)
                  \cup _add_project_semester_8_constraint(courses, semesters),
              objective |-> _set_objective(student, courses, semesters)]
  /\ pc' = "global_solve"
  /\ UNCHANGED <<root_course_code, all_prereqs, to_process,
                 loader, student, ui_log_callback, plan_index, failed_courses,
                 llm_weights, status, solution, plan, explanation, results,
                 plan_configs, course_interest_weights_dict, probes, reasons,
                 diagnose_calls, calls, last_llm_weights,
                 last_plan_explanation>>

\* solver.Solve(model) with a 30 s limit (src/hanuman.py:61-64)
GlobalSolve ==
  /\ pc = "global_solve"
  /\ LET F == FeasibleSolutions(model)
     IN \/ /\ status' = "OPTIMAL"
           /\ solution' \in OptimalSolutions(F, model.objective)
        \/ /\ status' = "FEASIBLE"
           /\ solution' \in F
        \/ /\ F = {}
           /\ status' = "INFEASIBLE"
           /\ solution' = {}
        \/ /\ status' = "UNKNOWN"
           /\ solution' = {}
  /\ pc' = "global_solved"
  /\ UNCHANGED <<root_course_code, all_prereqs, to_process,
                 loader, student, ui_log_callback, plan_index,
                 remaining_semesters, eligible_courses, failed_courses,
                 llm_weights, model, plan, explanation, results,
                 plan_configs, course_interest_weights_dict, probes, reasons,
                 diagnose_calls, calls, last_llm_weights,
                 last_plan_explanation>>

\* the OPTIMAL and FEASIBLE branches (src/hanuman.py:67-76)
GlobalReturnPlan ==
  /\ pc = "global_solved"
  /\ status \in {"OPTIMAL", "FEASIBLE"}
  /\ plan' = _extract_solution(solution, eligible_courses, remaining_semesters)
  /\ pc' = "global_returned"
  /\ UNCHANGED <<root_course_code, all_prereqs, to_process,
                 loader, student, ui_log_callback, plan_index,
                 remaining_semesters, eligible_courses, failed_courses,
                 llm_weights, model, status, solution, explanation, results,
                 plan_configs, course_interest_weights_dict, probes, reasons,
                 diagnose_calls, calls, last_llm_weights,
                 last_plan_explanation>>

\* the branch of every other status (src/hanuman.py:77-80)
GlobalReturnEmpty ==
  /\ pc = "global_solved"
  /\ status \notin {"OPTIMAL", "FEASIBLE"}
  /\ plan' = [sem \in Range(remaining_semesters) |-> <<>>]
  /\ pc' = "global_returned"
  /\ UNCHANGED <<root_course_code, all_prereqs, to_process,
                 loader, student, ui_log_callback, plan_index,
                 remaining_semesters, eligible_courses, failed_courses,
                 llm_weights, model, status, solution, explanation, results,
                 plan_configs, course_interest_weights_dict, probes, reasons,
                 diagnose_calls, calls, last_llm_weights,
                 last_plan_explanation>>

NextGlobal ==
  \/ GlobalBuildModel
  \/ GlobalSolve
  \/ GlobalReturnPlan
  \/ GlobalReturnEmpty

SpecGlobal == InitGlobal /\ [][NextGlobal]_vars

MaxPrereqs == 2

PrereqCodes == {"A", "B", "C"}

\* a catalog whose courses list the prerequisites given by the map m; GONE
\* is a code that is not a course of the catalog
PrereqCatalog(m) ==
  [courses_data |->
     << Course("A", 4, DC, FALSE, m["A"], 1, {Slot("A", 1)}),
        Course("B", 4, DC, FALSE, m["B"], 1, {Slot("B", 1)}),
        Course("C", 4, DC, FALSE, m["C"], 1, {Slot("C", 1)}) >>,
   credit_requirements |-> (DC :> 8)]

PrereqMaps ==
  [PrereqCodes -> {S \in SUBSET (PrereqCodes \cup {"GONE"}) :
                     Cardinality(S) <= MaxPrereqs}]

InitPrereqs ==
  /\ loader \in {PrereqCatalog(m) : m \in PrereqMaps}
  /\ student \in {[current_semester |-> TOTAL_SEMS, completed_courses |-> {},
                   failed_courses |-> {}, workload_preference |-> "medium"]}
  /\ plan_configs = PLAN_CONFIGS
  /\ Constructed

\* the variables of the planners
planner_vars == <<loader, student, ui_log_callback, plan_index,
                  remaining_semesters, eligible_courses, failed_courses,
                  llm_weights, model, status, solution, plan, explanation,
                  results, plan_configs, course_interest_weights_dict, probes,
                  reasons, diagnose_calls, calls, last_llm_weights,
                  last_plan_explanation>>

\* the orders in which a list can hold the elements of S
Orderings(S) ==
  {f \in [1..Cardinality(S) -> S] : \A i, j \in DOMAIN f : f[i] = f[j] => i = j}

\* variant: the set of visited codes starts with the course itself
CallSeeded ==
  /\ pc = "idle"
  /\ root_course_code' \in PrereqCodes \cup {"GONE"}
  /\ all_prereqs' = {root_course_code'}
  /\ to_process' = << root_course_code' >>
  /\ pc' = "walk"
  /\ UNCHANGED planner_vars

\* the call and the two initialisations (lines 246-249)
Call ==
  /\ pc = "idle"
  /\ root_course_code' \in PrereqCodes \cup {"GONE"}
  /\ all_prereqs' = {}
  /\ to_process' = << root_course_code' >>
  /\ pc' = "walk"
  /\ UNCHANGED planner_vars

\* one iteration of the while loop (lines 251-257): pop the last element
\* and add each prerequisite not yet in all_prereqs, in the order of the
\* catalog's list
Walk ==
  /\ pc = "walk"
  /\ to_process # <<>>
  /\ LET current == to_process[Len(to_process)]
         rest == SubSeq(to_process, 1, Len(to_process) - 1)
         new == get_prerequisites(current) \ all_prereqs
     IN /\ all_prereqs' = all_prereqs \cup new
        /\ \E order \in Orderings(new) : to_process' = rest \o order
  /\ UNCHANGED <<pc, root_course_code>>
  /\ UNCHANGED planner_vars

\* the loop ends and all_prereqs is returned (lines 251, 259)
Return ==
  /\ pc = "walk"
  /\ to_process = <<>>
  /\ pc' = "walked"
  /\ UNCHANGED <<root_course_code, all_prereqs, to_process>>
  /\ UNCHANGED planner_vars

NextPrereqs ==
  \/ Call
  \/ Walk
  \/ Return

\* the interpreter keeps running the call until it returns
SpecPrereqs == InitPrereqs /\ [][NextPrereqs]_vars /\ WF_vars(NextPrereqs)

(***************************************************************************)
(* C27: the transitive prerequisites                                       *)
(***************************************************************************)
\* the codes reached from c by 1 to n prerequisite edges
RECURSIVE ReachableWithin(_, _)
ReachableWithin(c, n) ==
  IF n = 0 THEN {}
  ELSE get_prerequisites(c)
         \cup UNION {ReachableWithin(p, n - 1) : p \in get_prerequisites(c)}

\* a path without repeated codes has at most one edge per code
Reachable(c) == ReachableWithin(c, Cardinality(PrereqCodes) + 1)

\* C27: every call of get_all_prerequisites_recursive returns, also for
\* prerequisite maps with cycles and self-prerequisites, and the set it
\* returns is exactly the set of codes reachable from the given course by
\* one or more prerequisite edges.
C27_TerminatesWithClosure ==
  /\ [](pc = "walked" => all_prereqs = Reachable(root_course_code))
  /\ (pc = "walk") ~> (pc = "walked")

\* a call returned for a course on a prerequisite cycle that also lists
\* itself: the course is in its own result
C27_Witness ==
  /\ pc = "walked"
  /\ root_course_code \in get_prerequisites(root_course_code)
  /\ \E d \in PrereqCodes \ {root_course_code} :
       /\ d \in get_prerequisites(root_course_code)
       /\ root_course_code \in get_prerequisites(d)
  /\ root_course_code \in all_prereqs

(***************************************************************************)
(* C28: a solved plan has no empty term                                    *)
(***************************************************************************)
\* C28: when generate_single_plan returns with status OPTIMAL or FEASIBLE,
\* every term from current_semester through 8 of the plan holds at least
\* one course; a returned plan has a non-empty term exactly when its solve
\* succeeded, so the non-empty-term test of generate_complete_plan is true
\* for every solved plan.
C28_SolvedPlanHasNoEmptyTerm ==
  pc = "returned" =>
    /\ status \in {"OPTIMAL", "FEASIBLE"}
         => /\ DOMAIN plan = student.current_semester..TOTAL_SEMS
            /\ \A sem \in DOMAIN plan : plan[sem] # <<>>
    /\ (\E sem \in DOMAIN plan : plan[sem] # <<>>)
         <=> status \in {"OPTIMAL", "FEASIBLE"}

\* a plan over two terms returned by a solve that stopped at its time limit
C28_Witness ==
  /\ pc = "returned"
  /\ status = "FEASIBLE"
  /\ Len(remaining_semesters) = 2
  /\ \A sem \in DOMAIN plan : plan[sem] # <<>>

(***************************************************************************)
(* C29: courses on a prerequisite cycle                                    *)
(***************************************************************************)
\* the greatest subset of S in which every course has a prerequisite
RECURSIVE Trim(_)
Trim(S) ==
  LET T == {c \in S : get_prerequisites(c) \cap S # {}}
  IN IF T = S THEN S ELSE Trim(T)

\* the non-completed courses that are in a set of non-completed courses
\* each of which has a prerequisite in the set
CycleCourses == Trim(Range(eligible_courses))

\* the capstone courses pinned to a remaining term
Pinned ==
  (IF 7 \in Range(remaining_semesters) THEN {"BCSE497J"} ELSE {})
    \cup {"BCSE498J", "BCSE499J"}

\* C29: no course of a prerequisite cycle of non-completed courses (a course
\* that is its own prerequisite included) is assigned to a term of a plan
\* CoursePlanner returns, and when such a course is failed or is a pinned
\* capstone course the solve does not succeed.
C29_CycleNeverAssigned ==
  pc = "returned" =>
    /\ \A sem \in DOMAIN plan : Range(plan[sem]) \cap CycleCourses = {}
    /\ CycleCourses \cap (failed_courses \cup Pinned) # {}
         => status \notin {"OPTIMAL", "FEASIBLE"}

\* a plan over two terms returned for a catalog with a two-course cycle and
\* a course that is its own prerequisite
C29_Witness ==
  /\ pc = "returned"
  /\ status = "OPTIMAL"
  /\ Len(remaining_semesters) = 2
  /\ \E c \in CycleCourses : c \in get_prerequisites(c)
  /\ \E c \in CycleCourses : c \notin get_prerequisites(c)

(***************************************************************************)
(* C30: the workload penalties                                             *)
(***************************************************************************)
\* student.workload_preference: unset, or a key of RANGES
WorkloadPreferences == {None, "low", "medium", "high"}

WorkloadCatalogs ==
  {k \in Catalogs : k.loader \in {CatalogChoice, CatalogQuota, CatalogTight}}

InitWorkload ==
  /\ \E k \in WorkloadCatalogs :
       /\ loader = k.loader
       /\ student \in {[st EXCEPT !.workload_preference = w] :
                         st \in {t \in Students(k) :
                                   t.failed_courses \cap t.completed_courses = {}},
                         w \in WorkloadPreferences}
  /\ plan_configs = PLAN_CONFIGS
  /\ Constructed

SpecWorkload == InitWorkload /\ [][Next]_vars

====
